---- MODULE Spec2Model ----
(***************************************************************************)
(* A model of the segmented write-ahead log of wal.go and recover.go: the  *)
(* log writer (open, write, writeTag, rotation, pruning, tag cache, close),*)
(* the log reader (reset, next, seek, seekTag, position) and the recovery  *)
(* facade, over a directory of segment files and the "tags" sidecar file.  *)
(* The segment writer and segment reader the log is built on are modelled  *)
(* at their interface: a segment file is a sequence of framed records and  *)
(* closing markers, addressed by byte offset.                              *)
(***************************************************************************)
EXTENDS Integers, Sequences, FiniteSets, TLC

VARIABLES
  opts,      \* the WriteOptions the writer is opened with
  files,     \* directory: segment index -> the entries of that segment file
  present,   \* directory: the segment indexes that have a file
  tagsFile,  \* directory: the "tags" sidecar file
  wopen,     \* whether a writer is open on the directory
  first,     \* WALWriter.first
  index,     \* WALWriter.index
  segPos,    \* WALWriter.segment: its write offset, which is also its size
  segSync,   \* WALWriter.segment: its sync rate
  unsynced,  \* WALWriter.segment: trailing entries not yet synced to disk
  cache,     \* WALWriter.cache.Tags
  hist,      \* history: the successful data writes whose segment is retained
  everPruned, \* history: a segment file was removed
  crashed,   \* history: the writer crashed
  nops,      \* history: the number of calls made so far
  maxUsed,   \* history: the highest segment index a writer ever used
  thr,       \* the threads that share the writer, its lock, and the
             \* sequential writer their calls are compared with
  tail       \* a reader that follows the live writer

vars ==
  <<opts, files, present, tagsFile, wopen, first, index, segPos, segSync,
    unsynced, cache, hist, everPruned, crashed, nops, maxUsed, thr, tail>>

\* ------------------------------------------------------------------ bounds

\* The number of calls of write, writeTag and open one behaviour makes after
\* the first open.
MaxOps == 4

\* ------------------------------------------------------- inputs and options

\* Data payloads: framed they take 8 and 10 bytes.
Payloads == {"a", "bbb"}

\* Tag names: framed they take 8 bytes.
TagNames == {"c", "d"}

SegmentSizes == {9, 16}

MaxSegmentsChoices == {0, 1, 2, 3}

\* SegmentTTL: 0 is disabled.
TTLs == {0, 1}

\* SyncRate: 0 syncs every append.
SyncRates == {0, 1}

\* The options a writer is opened with; a TTL and a sync rate are not combined.
WriteOptions ==
  {o \in [SegmentSize : SegmentSizes, MaxSegments : MaxSegmentsChoices,
          SegmentTTL : TTLs, SyncRate : SyncRates] :
     o.SegmentTTL = 0 \/ o.SyncRate = 0}

\* A segment index is at most the number of rotations, each part of a write.
Indexes == 0 .. MaxOps

\* ------------------------------------------------------------ record codec

dataType == "d"

tagType == "t"

\* The closing marker a clean close of a segment appends; it is no record.
closingMagic == [typ |-> "m", val |-> ""]

\* The byte length of the closing marker.
MagicLen == 7

\* 4 bytes of length, 1 of type, 2 of checksum.
averageOverhead == 4 + 1 + 2

Rec(typ, val) == [typ |-> typ, val |-> val]

EntrySize(e) ==
  IF e.typ = "m" THEN MagicLen ELSE averageOverhead + Len(e.val)

RECURSIVE FileSize(_)
FileSize(s) ==
  IF s = <<>> THEN 0 ELSE EntrySize(Head(s)) + FileSize(Tail(s))

\* The byte offset at which entry k of s starts (k = Len(s) + 1: the end).
OffsetOf(s, k) == FileSize(SubSeq(s, 1, k - 1))

\* The entry of s that starts at byte offset off; 0 when none starts there.
EntryAt(s, off) ==
  LET ks == {k \in 1 .. Len(s) : OffsetOf(s, k) = off}
  IN  IF ks = {} THEN 0 ELSE CHOOSE k \in ks : TRUE

Position(seg, off) == [segment |-> seg, offset |-> off]

NoPosition == Position(-1, -1)

\* ------------------------------------------------------------ the tags file

EmptyTags == [n \in {} |-> NoPosition]

\* The sidecar file: zero bytes long ("empty") or one encoded document.
TagsEmpty == [st |-> "empty", doc |-> EmptyTags]

TagsDoc(c) == [st |-> "doc", doc |-> c]

\* ---------------------------------------------------------- directory scan

Min(S) == CHOOSE x \in S : \A y \in S : x <= y

Max(S) == CHOOSE x \in S : \A y \in S : y <= x

\* rangeSegments: the lowest and highest segment index present, -1 if none.
rangeSegments(pres) ==
  IF pres = {} THEN [first |-> -1, last |-> -1]
  ELSE [first |-> Min(pres), last |-> Max(pres)]

\* ----------------------------------------------------------- segment writer
\* The writer's state and the directory as one value W, which the writer's
\* functions map to the next one.

Cur ==
  [files |-> files, present |-> present, tagsFile |-> tagsFile,
   first |-> first, index |-> index, segPos |-> segPos, segSync |-> segSync,
   unsynced |-> unsynced, cache |-> cache]

\* NewSegmentWriter(path): opens the file for appending, creating it if absent.
NewSegmentWriter(W, idx) ==
  LET old == IF idx \in W.present THEN W.files[idx] ELSE <<>>
  IN  [W EXCEPT !.files[idx] = old, !.present = W.present \cup {idx},
                !.index = idx, !.segPos = FileSize(old), !.segSync = 0,
                !.unsynced = 0]

\* SegmentWriter.SetSyncRate
SetSyncRate(W, rate) == [W EXCEPT !.segSync = rate]

\* One entry appended through the open handle. A file removed from the
\* directory while open takes the bytes with it.
SegAppend(W, e) ==
  [W EXCEPT !.files[W.index] =
              IF W.index \in W.present THEN Append(@, e) ELSE @,
            !.segPos = @ + EntrySize(e),
            !.unsynced =
              IF W.segSync > 0 /\ W.index \in W.present THEN @ + 1 ELSE 0]

\* SegmentWriter.Write and SegmentWriter.WriteTag
SegWrite(W, typ, val) == SegAppend(W, Rec(typ, val))

\* SegmentWriter.Close: the closing marker, then sync and close.
SegClose(W) == [SegAppend(W, closingMagic) EXCEPT !.unsynced = 0]

\* ---------------------------------------------------------------- log writer

\* NewWithOptions on the directory D (the fields files, present, tagsFile).
NewWithOptions(D, o) ==
  LET r     == rangeSegments(D.present)
      last  == IF r.last = -1 THEN 0 ELSE r.last
      frst  == IF r.first = -1 THEN 0 ELSE r.first
      W0    == [files |-> D.files, present |-> D.present,
                tagsFile |-> TagsEmpty, first |-> frst, index |-> last,
                segPos |-> 0, segSync |-> 0, unsynced |-> 0,
                cache |-> EmptyTags]
      W1    == NewSegmentWriter(W0, last)
  IN  IF o.SyncRate > 0 THEN SetSyncRate(W1, o.SyncRate) ELSE W1

rotateSegment(W) == NewSegmentWriter(SegClose(W), W.index + 1)

flushTagsFile(W) == [W EXCEPT !.tagsFile = TagsDoc(W.cache)]

\* The count boundary one segment too far: index - total.
PruneStartOffByOne(W, total) ==
  IF W.index - total < W.first THEN W.first ELSE W.index - total

\* The count boundary of pruneSegments.
PruneStart(W, total) ==
  IF W.index - total + 1 < W.first THEN W.first ELSE W.index - total + 1

\* The expiration loop with the comparison turned round: it stops at an
\* expired segment and passes the fresh ones.
PruneAdvancePastFresh(W, startAt, fresh) ==
  LET stops == {i \in startAt .. W.index :
                  i = W.index \/ (i \in W.present /\ i \notin fresh)}
  IN  IF startAt < W.index THEN Min(stops) ELSE startAt

\* The expiration loop of pruneSegments: fresh holds the segments whose
\* modification time is after the expiration.
RECURSIVE PruneAdvance(_, _, _)
PruneAdvance(W, startAt, fresh) ==
  IF startAt < W.index /\ ~(startAt \in W.present /\ startAt \in fresh)
  THEN PruneAdvance(W, startAt + 1, fresh)
  ELSE startAt

\* The tag cache entries pruneSegments keeps.
PruneCache(c, startAt) ==
  [n \in {m \in DOMAIN c : ~(c[m].segment < startAt)} |-> c[n]]

\* pruneSegments(total, expiration); expiring: the expiration is not zero.
pruneSegments(W, total, expiring, fresh) ==
  LET start0  == PruneStart(W, total)
      startAt == IF expiring THEN PruneAdvance(W, start0, fresh) ELSE start0
      gone    == W.first .. (startAt - 1)
      pruned  == gone # {}
      W1      == [W EXCEPT !.present = @ \ gone,
                           !.files = [i \in DOMAIN @ |->
                                        IF i \in gone THEN <<>> ELSE @[i]]]
      kept    == PruneCache(W.cache, startAt)
      W2      == [W1 EXCEPT !.first = startAt, !.cache = kept]
  IN  IF ~pruned THEN W
      ELSE IF kept # W.cache THEN flushTagsFile(W2) ELSE W2

\* The rotation test with >= for >.
WriteNeedsRotateAtLimit(W, o, data) ==
  Len(data) + averageOverhead + W.segPos >= o.SegmentSize

\* WALWriter.Write(data); fresh: what the stat calls of the pruning report.
WriteNeedsRotate(W, o, data) ==
  Len(data) + averageOverhead + W.segPos > o.SegmentSize

WalWrite(W, o, data, fresh) ==
  LET W1 == IF WriteNeedsRotate(W, o, data)
            THEN pruneSegments(rotateSegment(W), o.MaxSegments,
                               o.SegmentTTL # 0, fresh)
            ELSE W
  IN  SegWrite(W1, dataType, data)

\* WALWriter.Pos
WalPos(W) == Position(W.index, W.segPos)

\* WriteTag that takes the segment's offset after the append.
WalWriteTagPosAfter(W, tag) ==
  LET W1   == SegWrite(W, tagType, tag)
      c    == [n \in DOMAIN W.cache \cup {tag} |->
                 IF n = tag THEN Position(W.index, W1.segPos) ELSE W.cache[n]]
  IN  flushTagsFile([W1 EXCEPT !.cache = c])

\* WALWriter.WriteTag(tag)
WalWriteTag(W, tag) ==
  LET segP == W.segPos
      W1   == SegWrite(W, tagType, tag)
      c    == [n \in DOMAIN W.cache \cup {tag} |->
                 IF n = tag THEN Position(W.index, segP) ELSE W.cache[n]]
  IN  flushTagsFile([W1 EXCEPT !.cache = c])

\* WALWriter.Close
WalClose(W) == SegClose(W)

\* ----------------------------------------------------------- segment reader

\* SegmentReader.next(typ) on the entries s from byte offset off: the closing
\* marker and the records of another type are passed over; ok is false when
\* no further complete record is there; err when off is inside a record.
RECURSIVE SegNext(_, _, _)
SegNext(s, off, typ) ==
  IF off >= FileSize(s)
  THEN [ok |-> FALSE, off |-> off, val |-> "", err |-> FALSE]
  ELSE LET k == EntryAt(s, off)
       IN  IF k = 0
           THEN [ok |-> FALSE, off |-> off, val |-> "", err |-> TRUE]
           ELSE IF s[k].typ = typ
           THEN [ok |-> TRUE, off |-> off + EntrySize(s[k]), val |-> s[k].val,
                 err |-> FALSE]
           ELSE SegNext(s, off + EntrySize(s[k]), typ)

\* ---------------------------------------------------------------- log reader
\* A reader R: open (seg is not nil), first, last, index, the segment file
\* seg its segment reader holds, that reader's offset off, value val and
\* sticky error serr, and the reader's own error err.

NoError == "nil"

EOF == "EOF"

ErrNoSegments == "no segments"

ErrNotExist == "not exist"

ErrCorrupt == "corrupt"

ZeroReader ==
  [open |-> FALSE, first |-> 0, last |-> 0, index |-> 0, seg |-> 0,
   off |-> 0, val |-> "", serr |-> FALSE, err |-> NoError]

\* NewSegmentReader(path) put in R.seg.
OpenSegment(R, idx) ==
  [R EXCEPT !.open = TRUE, !.seg = idx, !.off = 0, !.val = "",
            !.serr = FALSE]

\* WALReader.Reset
Reset(R, D) ==
  LET r == rangeSegments(D.present)
  IN  IF r.first = -1 THEN [r |-> R, err |-> ErrNoSegments]
      ELSE [r   |-> [OpenSegment(R, r.first) EXCEPT
                       !.first = r.first, !.last = r.last,
                       !.index = r.first],
            err |-> NoError]

\* NewReader
NewReader(D) == Reset(ZeroReader, D)

\* WALReader.Pos
Pos(R) ==
  IF R.err # NoError \/ ~R.open THEN NoPosition ELSE Position(R.index, R.off)

\* WALReader.Error
Error(R) ==
  IF R.err # NoError THEN R.err
  ELSE IF R.open /\ R.serr THEN ErrCorrupt
  ELSE NoError

\* WALReader.Value
Value(R) == IF ~R.open THEN "" ELSE R.val

\* A step of the segment reader R.seg.
SegStep(R, typ, D) ==
  LET sn == SegNext(D.files[R.seg], R.off, typ)
  IN  [r  |-> [R EXCEPT !.off = sn.off,
                        !.val = IF sn.ok THEN sn.val ELSE @,
                        !.serr = @ \/ sn.err],
       ok |-> sn.ok]

\* next with the last segment left out: the bound of its loop off by one.
nextStopsBeforeLast(R, typ, D) ==
  LET R0  == [R EXCEPT !.err = NoError]
      s0  == SegStep(R0, typ, D)
      R1  == IF R0.open THEN s0.r ELSE R0
      idx == R.index + 1
      R2  == IF idx >= R1.last
             THEN [R1 EXCEPT !.last = rangeSegments(D.present).last]
             ELSE R1
      R3  == [R2 EXCEPT !.index = idx]
      s3  == SegStep(OpenSegment(R3, idx), typ, D)
  IN  IF R0.open /\ s0.ok THEN [r |-> s0.r, ok |-> TRUE]
      ELSE IF idx >= R2.last THEN [r |-> R2, ok |-> FALSE]
      ELSE IF idx \notin D.present
      THEN [r |-> [R3 EXCEPT !.err = ErrNotExist], ok |-> FALSE]
      ELSE [r |-> s3.r, ok |-> s3.ok]

\* WALReader.next(typ). The body of its loop runs once: it leaves the loop
\* when the segment it opened has a record and returns when it has none.
next(R, typ, D) ==
  LET R0  == [R EXCEPT !.err = NoError]
      s0  == SegStep(R0, typ, D)
      R1  == IF R0.open THEN s0.r ELSE R0
      idx == R.index + 1
      R2  == IF idx > R1.last
             THEN [R1 EXCEPT !.last = rangeSegments(D.present).last]
             ELSE R1
      R3  == [R2 EXCEPT !.index = idx]
      s3  == SegStep(OpenSegment(R3, idx), typ, D)
  IN  IF R0.open /\ s0.ok THEN [r |-> s0.r, ok |-> TRUE]
      ELSE IF idx > R2.last THEN [r |-> R2, ok |-> FALSE]
      ELSE IF idx \notin D.present
      THEN [r |-> [R3 EXCEPT !.err = ErrNotExist], ok |-> FALSE]
      ELSE [r |-> s3.r, ok |-> s3.ok]

\* WALReader.Next
ReaderNext(R, D) == next(R, dataType, D)

\* The two parts of next, for a reader that runs beside the writer: the
\* read in the current segment ...
nextInSegment(R, typ, D) ==
  LET R0 == [R EXCEPT !.err = NoError]
      s0 == SegStep(R0, typ, D)
  IN  [r |-> IF R0.open THEN s0.r ELSE R0, ok |-> R0.open /\ s0.ok]

\* ... and, when that found nothing, the loop: the directory scanned again,
\* the next segment opened and read.
nextSegment(R1, typ, D) ==
  LET idx == R1.index + 1
      R2  == IF idx > R1.last
             THEN [R1 EXCEPT !.last = rangeSegments(D.present).last]
             ELSE R1
      R3  == [R2 EXCEPT !.index = idx]
      s3  == SegStep(OpenSegment(R3, idx), typ, D)
  IN  IF idx > R2.last THEN [r |-> R2, ok |-> FALSE]
      ELSE IF idx \notin D.present
      THEN [r |-> [R3 EXCEPT !.err = ErrNotExist], ok |-> FALSE]
      ELSE [r |-> s3.r, ok |-> s3.ok]

\* Seek that opens the other segment and leaves out the seek to the offset.
SeekOpensAtStart(R, p, D) ==
  IF p.segment = R.index /\ R.open
  THEN [r |-> [R EXCEPT !.off = p.offset], err |-> NoError]
  ELSE IF p.segment \notin D.present THEN [r |-> R, err |-> ErrNotExist]
  ELSE [r   |-> [OpenSegment(R, p.segment) EXCEPT !.index = p.segment],
        err |-> NoError]

\* WALReader.Seek(p)
Seek(R, p, D) ==
  IF p.segment = R.index /\ R.open
  THEN [r |-> [R EXCEPT !.off = p.offset], err |-> NoError]
  ELSE IF p.segment \notin D.present THEN [r |-> R, err |-> ErrNotExist]
  ELSE [r   |-> [OpenSegment(R, p.segment) EXCEPT
                   !.index = p.segment, !.off = p.offset],
        err |-> NoError]

\* The loop of SeekLast: p1 is the position before the record yielded last.
RECURSIVE SeekLastLoop(_, _, _, _)
SeekLastLoop(R, p1, p2, D) ==
  LET n == ReaderNext(R, D)
  IN  IF n.ok THEN SeekLastLoop(n.r, p2, Pos(n.r), D)
      ELSE [r |-> n.r, p1 |-> p1]

\* WALReader.SeekLast
SeekLast(R, D) ==
  LET p2 == Position(R.last, 0)
      sk == Seek(R, p2, D)
      lp == SeekLastLoop(sk.r, NoPosition, p2, D)
  IN  IF sk.err # NoError THEN sk
      ELSE IF Error(lp.r) # NoError THEN [r |-> lp.r, err |-> Error(lp.r)]
      ELSE IF lp.p1.segment = -1 THEN [r |-> lp.r, err |-> ErrNoSegments]
      ELSE Seek(lp.r, lp.p1, D)

\* The end of SeekTag, at its label eof.
SeekTagEof(R) ==
  [r |-> R, err |-> IF Error(R) # NoError THEN Error(R) ELSE EOF]

\* The linear scan of SeekTag.
RECURSIVE ScanTag(_, _, _)
ScanTag(R, tag, D) ==
  LET n == next(R, tagType, D)
  IN  IF ~n.ok THEN SeekTagEof(n.r)
      ELSE IF Value(n.r) = tag THEN [r |-> n.r, err |-> NoError]
      ELSE ScanTag(n.r, tag, D)

\* The cache lookup of SeekTag when the cache names the tag.
SeekTagCached(R, tag, D) ==
  LET sk == Seek(R, D.tagsFile.doc[tag], D)
      n  == next(sk.r, tagType, D)
  IN  IF sk.err # NoError THEN sk
      ELSE IF n.ok /\ Value(n.r) = tag THEN [r |-> n.r, err |-> NoError]
      ELSE SeekTagEof(n.r)

\* WALReader.SeekTag(tag). Decoding a tags file of zero bytes fails with the
\* decoder's end-of-input error, which is io.EOF.
SeekTag(R, tag, D) ==
  IF D.tagsFile.st = "empty" THEN [r |-> R, err |-> EOF]
  ELSE IF D.tagsFile.st = "doc" /\ tag \in DOMAIN D.tagsFile.doc
  THEN SeekTagCached(R, tag, D)
  ELSE ScanTag(R, tag, D)

\* BeginRecovery(path, tag); ok: a reader is returned.
BeginRecovery(D, tag) ==
  LET nr == NewReader(D)
      st == SeekTag(nr.r, tag, D)
      rs == Reset(st.r, D)
  IN  IF nr.err # NoError THEN [ok |-> FALSE, r |-> ZeroReader, err |-> nr.err]
      ELSE IF st.err = NoError THEN [ok |-> TRUE, r |-> st.r, err |-> NoError]
      ELSE IF st.err # EOF THEN [ok |-> FALSE, r |-> ZeroReader, err |-> st.err]
      ELSE IF rs.err # NoError
      THEN [ok |-> FALSE, r |-> ZeroReader, err |-> rs.err]
      ELSE [ok |-> TRUE, r |-> rs.r, err |-> NoError]

\* The directory as the reader finds it.
Dir == [files |-> files, present |-> present, tagsFile |-> tagsFile]

\* ------------------------------------------------------------------ crashes

\* What a crash of the writer leaves in the directory: the last k of the
\* current segment's unsynced entries never reached the disk.
CrashFiles(W, k) ==
  [W.files EXCEPT ![W.index] = SubSeq(@, 1, Len(@) - k)]

\* The points of Write(data) at which a crash leaves a different directory:
\* the old segment closed; the new one created; the pruned files removed;
\* the tags file truncated for its rewrite; the pruning complete.
WriteCrashPoints == {"closed", "created", "removed", "truncated", "pruned"}

\* The files of R with index low or more that the pruning P of R removes:
\* the removal runs from the highest index down.
RemovedDownTo(R, P, low) == {i \in R.present \ P.present : i >= low}

WriteCrashState(W, o, fresh, point, low) ==
  LET R    == rotateSegment(W)
      P    == pruneSegments(R, o.MaxSegments, o.SegmentTTL # 0, fresh)
      gone == RemovedDownTo(R, P, low)
  IN  CASE point = "closed"    -> SegClose(W)
        [] point = "created"   -> R
        [] point = "removed"   ->
             [R EXCEPT !.present = @ \ gone,
                       !.files = [i \in DOMAIN @ |->
                                    IF i \in gone THEN <<>> ELSE @[i]]]
        [] point = "truncated" -> [P EXCEPT !.tagsFile = TagsEmpty]
        [] point = "pruned"    -> P

WriteCrashPossible(W, o, fresh, point, low) ==
  LET R == rotateSegment(W)
      P == pruneSegments(R, o.MaxSegments, o.SegmentTTL # 0, fresh)
  IN  CASE point = "removed"   -> RemovedDownTo(R, P, low) # {}
        [] point = "truncated" -> low = 0 /\ P.cache # R.cache
        [] point = "pruned"    -> low = 0 /\ P.first # R.first
        [] OTHER               -> low = 0

\* The points of WriteTag(tag): the tag record appended; the tags file
\* truncated for its rewrite.
TagCrashPoints == {"appended", "truncated"}

TagCrashState(W, tag, point) ==
  LET W1 == SegWrite(W, tagType, tag)
  IN  IF point = "truncated" THEN [W1 EXCEPT !.tagsFile = TagsEmpty] ELSE W1

\* ------------------------------------------------------------------ history

\* The data writes of h whose position and whose record are in segments of
\* pres.
Retained(h, pres) ==
  SelectSeq(h, LAMBDA g : g.pos.segment \in pres /\ g.at.segment \in pres)

\* The data writes of h whose record is within the first size bytes of seg.
Surviving(h, seg, size) ==
  SelectSeq(h, LAMBDA g : ~(g.at.segment = seg /\ g.at.offset >= size))

\* The segments the stat calls of a pruning report as modified after the
\* expiration: a later segment is modified later.
FreshChoices(o) ==
  IF o.SegmentTTL = 0 THEN {{}}
  ELSE {{i \in present : i >= k} : k \in present \cup {MaxOps + 1}}

\* ------------------------------------------------------------------ actions

NoFiles == [i \in Indexes |-> <<>>]

Install(W) ==
  /\ files' = W.files
  /\ present' = W.present
  /\ tagsFile' = W.tagsFile
  /\ first' = W.first
  /\ index' = W.index
  /\ segPos' = W.segPos
  /\ segSync' = W.segSync
  /\ unsynced' = W.unsynced
  /\ cache' = W.cache

\* The writer is gone: its fields hold nothing.
Gone(fs, pres, tf) ==
  /\ files' = fs
  /\ present' = pres
  /\ tagsFile' = tf
  /\ wopen' = FALSE
  /\ first' = 0
  /\ index' = 0
  /\ segPos' = 0
  /\ segSync' = 0
  /\ unsynced' = 0
  /\ cache' = EmptyTags

\* The threads that call one writer.
Threads == {1, 2}

NoCall == [op |-> "none", arg |-> "", segP |-> 0, ret |-> NoPosition,
           want |-> NoPosition]

\* No thread is in a call; ref is the writer the calls are compared with.
ThreadsIdle(W) ==
  [lock |-> 0, pc |-> [t \in Threads |-> "idle"],
   call |-> [t \in Threads |-> NoCall], ref |-> W]

\* No reader follows the writer yet.
NoTail == [st |-> "none", r |-> ZeroReader, got |-> <<>>]

\* The writer opened on an empty directory.
Init ==
  /\ opts \in WriteOptions
  /\ LET W == NewWithOptions(
                [files |-> NoFiles, present |-> {},
                 tagsFile |-> [st |-> "absent", doc |-> EmptyTags]], opts)
     IN  /\ files = W.files
         /\ present = W.present
         /\ tagsFile = W.tagsFile
         /\ first = W.first
         /\ index = W.index
         /\ segPos = W.segPos
         /\ segSync = W.segSync
         /\ unsynced = W.unsynced
         /\ cache = W.cache
         /\ thr = ThreadsIdle(W)
  /\ wopen = TRUE
  /\ hist = <<>>
  /\ everPruned = FALSE
  /\ crashed = FALSE
  /\ nops = 0
  /\ maxUsed = 0
  /\ tail = NoTail

Write(data, fresh) ==
  /\ wopen
  /\ nops < MaxOps
  /\ LET W == WalWrite(Cur, opts, data, fresh)
         g == [pos |-> WalPos(Cur),
               at  |-> Position(W.index, W.segPos - EntrySize(Rec(dataType, data))),
               val |-> data]
     IN  /\ Install(W)
         /\ hist' = Retained(Append(hist, g), W.present)
         /\ everPruned' = (everPruned \/ ~(present \subseteq W.present))
         /\ maxUsed' = Max({maxUsed, W.index})
  /\ nops' = nops + 1
  /\ UNCHANGED <<opts, wopen, crashed, thr, tail>>

WriteTag(tag) ==
  /\ wopen
  /\ nops < MaxOps
  /\ Install(WalWriteTag(Cur, tag))
  /\ nops' = nops + 1
  /\ UNCHANGED <<opts, wopen, hist, everPruned, crashed, maxUsed, thr, tail>>

\* The timer of a segment writer with a sync rate.
SyncTimer ==
  /\ wopen
  /\ unsynced > 0
  /\ unsynced' = 0
  /\ UNCHANGED <<opts, files, present, tagsFile, wopen, first, index, segPos,
                 segSync, cache, hist, everPruned, crashed, nops, maxUsed,
                 thr, tail>>

Close ==
  /\ wopen
  /\ LET W == WalClose(Cur) IN Gone(W.files, W.present, W.tagsFile)
  /\ UNCHANGED <<opts, hist, everPruned, crashed, nops, maxUsed, thr, tail>>

Open ==
  /\ ~wopen
  /\ nops < MaxOps
  /\ LET W == NewWithOptions(
                [files |-> files, present |-> present, tagsFile |-> tagsFile],
                opts)
     IN  /\ Install(W)
         /\ maxUsed' = Max({maxUsed, W.index})
  /\ wopen' = TRUE
  /\ nops' = nops + 1
  /\ UNCHANGED <<opts, hist, everPruned, crashed, thr, tail>>

\* The writer's process or machine stops between two calls.
Crash(k) ==
  /\ wopen
  /\ k <= unsynced
  /\ LET fs == CrashFiles(Cur, k)
     IN  /\ Gone(fs, present, tagsFile)
         /\ hist' = Surviving(hist, index, FileSize(fs[index]))
  /\ crashed' = TRUE
  /\ UNCHANGED <<opts, everPruned, nops, maxUsed, thr, tail>>

\* ... or within Write(data), at one of its crash points.
CrashInWrite(data, fresh, point, low) ==
  /\ wopen
  /\ nops < MaxOps
  /\ WriteNeedsRotate(Cur, opts, data)
  /\ WriteCrashPossible(Cur, opts, fresh, point, low)
  /\ LET W == WriteCrashState(Cur, opts, fresh, point, low)
     IN  /\ Gone(W.files, W.present, W.tagsFile)
         /\ hist' = Retained(hist, W.present)
         /\ everPruned' = (everPruned \/ ~(present \subseteq W.present))
         /\ maxUsed' = Max({maxUsed, W.index})
  /\ crashed' = TRUE
  /\ nops' = nops + 1
  /\ UNCHANGED <<opts, thr, tail>>

\* ... or within WriteTag(tag), at one of its crash points.
CrashInWriteTag(tag, point, k) ==
  /\ wopen
  /\ nops < MaxOps
  /\ LET W  == TagCrashState(Cur, tag, point)
         fs == CrashFiles(W, k)
     IN  /\ k <= W.unsynced
         /\ Gone(fs, W.present, W.tagsFile)
         /\ hist' = Surviving(hist, index, FileSize(fs[index]))
  /\ crashed' = TRUE
  /\ nops' = nops + 1
  /\ UNCHANGED <<opts, everPruned, maxUsed, thr, tail>>

Next ==
  \/ \E data \in Payloads, fresh \in FreshChoices(opts) : Write(data, fresh)
  \/ \E tag \in TagNames : WriteTag(tag)
  \/ SyncTimer
  \/ Close
  \/ Open
  \/ \E k \in 0 .. unsynced : Crash(k)
  \/ \E data \in Payloads, fresh \in FreshChoices(opts),
        point \in WriteCrashPoints, low \in Indexes :
        CrashInWrite(data, fresh, point, low)
  \/ \E tag \in TagNames, point \in TagCrashPoints, k \in 0 .. unsynced + 1 :
        CrashInWriteTag(tag, point, k)

Spec == Init /\ [][Next]_vars

\* ------------------------------------------- a reader beside the live writer
\* The writer's calls are atomic as before; a call of Next by the reader is
\* two steps, between which the writer may act.

\* NewReader by the following reader.
TailOpen ==
  /\ tail.st = "none"
  /\ LET nr == NewReader(Dir)
     IN  /\ nr.err = NoError
         /\ tail' = [tail EXCEPT !.st = "idle", !.r = nr.r]
  /\ UNCHANGED <<opts, files, present, tagsFile, wopen, first, index, segPos,
                 segSync, unsynced, cache, hist, everPruned, crashed, nops,
                 maxUsed, thr>>

\* Next, first part: a record of the current segment is yielded, or none is
\* there.
TailSegNext ==
  /\ tail.st = "idle"
  /\ LET a == nextInSegment(tail.r, dataType, Dir)
     IN  tail' = IF a.ok
                 THEN [st |-> "idle", r |-> a.r,
                       got |-> Append(tail.got, Value(a.r))]
                 ELSE [tail EXCEPT !.st = "loop", !.r = a.r]
  /\ UNCHANGED <<opts, files, present, tagsFile, wopen, first, index, segPos,
                 segSync, unsynced, cache, hist, everPruned, crashed, nops,
                 maxUsed, thr>>

\* Next, second part: the loop over the following segments.
TailAdvance ==
  /\ tail.st = "loop"
  /\ LET b == nextSegment(tail.r, dataType, Dir)
     IN  tail' = [st  |-> "idle", r |-> b.r,
                  got |-> IF b.ok THEN Append(tail.got, Value(b.r))
                          ELSE tail.got]
  /\ UNCHANGED <<opts, files, present, tagsFile, wopen, first, index, segPos,
                 segSync, unsynced, cache, hist, everPruned, crashed, nops,
                 maxUsed, thr>>

\* A writer that syncs every append and has no TTL, and a reader.
TailInit == Init /\ opts.SegmentTTL = 0 /\ opts.SyncRate = 0

TailNext ==
  \/ \E data \in Payloads, fresh \in FreshChoices(opts) : Write(data, fresh)
  \/ \E tag \in TagNames : WriteTag(tag)
  \/ TailOpen
  \/ TailSegNext
  \/ TailAdvance

\* The reader keeps calling Next.
TailSpec ==
  TailInit /\ [][TailNext]_vars /\ WF_vars(TailSegNext) /\ WF_vars(TailAdvance)

\* ------------------------------------------- threads that share one writer
\* Write, WriteTag and Pos called by several threads: each call takes the
\* writer's lock, runs its steps one at a time and releases the lock on
\* return. thr.ref is the writer that runs the calls whole, in the order in
\* which they took the lock.

\* The calls a thread makes.
Calls ==
  {[NoCall EXCEPT !.op = "write", !.arg = d] : d \in Payloads}
    \cup {[NoCall EXCEPT !.op = "tag", !.arg = n] : n \in TagNames}
    \cup {[NoCall EXCEPT !.op = "pos"]}

\* A call that does not wait for the lock.
LockNeverHeld(l) == TRUE

\* wal.lock.Lock() returns when no thread holds the lock.
LockFree(l) == l = 0

\* The call c run whole on the writer W.
RunWhole(W, c) ==
  CASE c.op = "write" -> WalWrite(W, opts, c.arg, {})
    [] c.op = "tag"   -> WalWriteTag(W, c.arg)
    [] OTHER          -> W

ThreadLeaves ==
  UNCHANGED <<opts, wopen, hist, everPruned, crashed, maxUsed, tail>>

WriterLeft ==
  UNCHANGED <<files, present, tagsFile, first, index, segPos, segSync,
              unsynced, cache>>

\* Thread t calls Write, WriteTag or Pos.
ThreadCall(t, c) ==
  /\ thr.pc[t] = "idle"
  /\ nops < MaxOps
  /\ thr' = [thr EXCEPT !.pc[t] = "lock", !.call[t] = c]
  /\ nops' = nops + 1
  /\ WriterLeft /\ ThreadLeaves

\* wal.lock.Lock()
ThreadLock(t) ==
  /\ thr.pc[t] = "lock"
  /\ LockFree(thr.lock)
  /\ thr' = [thr EXCEPT
               !.lock = t,
               !.pc[t] = CASE thr.call[t].op = "write" -> "rotate"
                           [] thr.call[t].op = "tag"   -> "tagAppend"
                           [] OTHER                    -> "pos",
               !.call[t].want = WalPos(thr.ref),
               !.ref = RunWhole(thr.ref, thr.call[t])]
  /\ UNCHANGED nops /\ WriterLeft /\ ThreadLeaves

\* Write: the size test and rotateSegment.
ThreadRotate(t) ==
  /\ thr.pc[t] = "rotate"
  /\ IF WriteNeedsRotate(Cur, opts, thr.call[t].arg)
     THEN /\ Install(rotateSegment(Cur))
          /\ thr' = [thr EXCEPT !.pc[t] = "prune"]
     ELSE /\ WriterLeft
          /\ thr' = [thr EXCEPT !.pc[t] = "append"]
  /\ UNCHANGED nops /\ ThreadLeaves

\* Write: pruneSegments.
ThreadPrune(t) ==
  /\ thr.pc[t] = "prune"
  /\ Install(pruneSegments(Cur, opts.MaxSegments, FALSE, {}))
  /\ thr' = [thr EXCEPT !.pc[t] = "append"]
  /\ UNCHANGED nops /\ ThreadLeaves

\* Write: the append.
ThreadAppend(t) ==
  /\ thr.pc[t] = "append"
  /\ Install(SegWrite(Cur, dataType, thr.call[t].arg))
  /\ thr' = [thr EXCEPT !.pc[t] = "unlock"]
  /\ UNCHANGED nops /\ ThreadLeaves

\* WriteTag: the segment's offset taken, the tag record appended.
ThreadTagAppend(t) ==
  /\ thr.pc[t] = "tagAppend"
  /\ Install(SegWrite(Cur, tagType, thr.call[t].arg))
  /\ thr' = [thr EXCEPT !.pc[t] = "tagFlush", !.call[t].segP = segPos]
  /\ UNCHANGED nops /\ ThreadLeaves

\* WriteTag: the entry put in the map, the tags file rewritten.
ThreadTagFlush(t) ==
  /\ thr.pc[t] = "tagFlush"
  /\ LET c == [n \in DOMAIN cache \cup {thr.call[t].arg} |->
                 IF n = thr.call[t].arg
                 THEN Position(index, thr.call[t].segP) ELSE cache[n]]
     IN  Install(flushTagsFile([Cur EXCEPT !.cache = c]))
  /\ thr' = [thr EXCEPT !.pc[t] = "unlock"]
  /\ UNCHANGED nops /\ ThreadLeaves

\* Pos: the position read.
ThreadPos(t) ==
  /\ thr.pc[t] = "pos"
  /\ thr' = [thr EXCEPT !.pc[t] = "unlock", !.call[t].ret = WalPos(Cur)]
  /\ UNCHANGED nops /\ WriterLeft /\ ThreadLeaves

\* The deferred wal.lock.Unlock().
ThreadUnlock(t) ==
  /\ thr.pc[t] = "unlock"
  /\ thr' = [thr EXCEPT !.pc[t] = "idle", !.lock = 0]
  /\ UNCHANGED nops /\ WriterLeft /\ ThreadLeaves

LockInit == Init /\ opts.SegmentTTL = 0 /\ opts.SyncRate = 0

LockNext ==
  \E t \in Threads :
    \/ \E c \in Calls : ThreadCall(t, c)
    \/ ThreadLock(t)
    \/ ThreadRotate(t)
    \/ ThreadPrune(t)
    \/ ThreadAppend(t)
    \/ ThreadTagAppend(t)
    \/ ThreadTagFlush(t)
    \/ ThreadPos(t)
    \/ ThreadUnlock(t)

LockSpec == LockInit /\ [][LockNext]_vars

\* ------------------------------------------------------- what a reader finds

\* The payloads a fresh reader yields by calling Next until it returns false.
RECURSIVE Drain(_, _)
Drain(R, D) ==
  LET n == ReaderNext(R, D)
  IN  IF n.ok THEN <<Value(n.r)>> \o Drain(n.r, D) ELSE <<>>

ReadAll(D) ==
  LET nr == NewReader(D)
  IN  IF nr.err # NoError THEN <<>> ELSE Drain(nr.r, D)

\* The payloads of the data writes of the history, in write order.
Written == [i \in 1 .. Len(hist) |-> hist[i].val]

\* A fresh reader's Seek(p), then Next.
SeekThenNext(p, D) ==
  LET nr == NewReader(D)
      sk == Seek(nr.r, p, D)
      n  == ReaderNext(sk.r, D)
  IN  [ok  |-> nr.err = NoError /\ sk.err = NoError /\ n.ok,
       val |-> Value(n.r)]

\* A segment that was written to again after a clean close: a data record
\* follows a closing marker.
ReopenedSegment ==
  \E i \in present : \E k \in 1 .. Len(files[i]) - 1 :
    files[i][k] = closingMagic /\ files[i][k + 1].typ = dataType

\* The places <<segment, entry>> of the tag records named n in the directory.
TagSites(n) ==
  UNION {{<<i, k>> : k \in {j \in 1 .. Len(files[i]) :
                              files[i][j] = Rec(tagType, n)}} : i \in present}

\* The position right after the entry at place s.
AfterSite(s) == Position(s[1], OffsetOf(files[s[1]], s[2] + 1))

\* The data records from entry k0 of segment i on, in log order.
RECURSIVE DataFrom(_, _)
DataFrom(i, k0) ==
  IF i > MaxOps THEN <<>>
  ELSE (IF i \in present
        THEN SelectSeq(SubSeq(files[i], k0, Len(files[i])),
                       LAMBDA e : e.typ = dataType)
        ELSE <<>>) \o DataFrom(i + 1, 1)

\* --------------------------------------------------------------------- claims

\* C1. As long as no segment was removed and the writer never crashed, a
\* fresh reader that calls Next until it returns false yields exactly the
\* payloads written, in write order, each once, tag records left out.
ReopenContinuity == (~everPruned /\ ~crashed) => ReadAll(Dir) = Written

\* C1 witness: data, a tag, a rotation and a reopen into the same segment,
\* all read back.
ReopenContinuityWitness ==
  /\ ~everPruned /\ ~crashed
  /\ index >= 1
  /\ ReopenedSegment
  /\ \E n \in TagNames : TagSites(n) # {}
  /\ Len(Written) >= 2
  /\ ReadAll(Dir) = Written

\* C2. For every successful Write(p), with pos the writer's position right
\* before it: while the segment of pos and the segment of the record are
\* retained, a fresh reader's Seek(pos) then Next returns true with value p.
PositionRoundTrip ==
  \A i \in 1 .. Len(hist) :
    (hist[i].pos.segment \in present /\ hist[i].at.segment \in present)
      => SeekThenNext(hist[i].pos, Dir) = [ok |-> TRUE, val |-> hist[i].val]

\* C2 witness: a write that rotated, after a reopen, found from the position
\* taken in the old segment.
PositionRoundTripWitness ==
  /\ ReopenedSegment
  /\ \E i \in 1 .. Len(hist) :
       /\ hist[i].at.segment = hist[i].pos.segment + 1
       /\ hist[i].pos.segment \in present
       /\ hist[i].pos.offset > 0
       /\ SeekThenNext(hist[i].pos, Dir) = [ok |-> TRUE, val |-> hist[i].val]

\* C3. For a tag name n with one tag record in the retained log and data
\* written after it, a fresh reader's SeekTag(n) succeeds, leaves the
\* reader's position right after the tag record, and the following Next
\* yields the first data record after the tag.
TagRoundTrip ==
  ~crashed =>
    \A n \in TagNames : \A s \in TagSites(n) :
      (TagSites(n) = {s} /\ DataFrom(s[1], s[2] + 1) # <<>>)
        => LET nr == NewReader(Dir)
               st == SeekTag(nr.r, n, Dir)
               nx == ReaderNext(st.r, Dir)
           IN  /\ nr.err = NoError
               /\ st.err = NoError
               /\ Pos(st.r) = AfterSite(s)
               /\ nx.ok
               /\ Value(nx.r) = Head(DataFrom(s[1], s[2] + 1)).val

\* C4. BeginRecovery(tag) returns a reader at the very start of the log only
\* when the retained log holds no tag record named tag; when it holds one,
\* the reader is right after a tag record named tag.
RecoveryResumesFromTag ==
  ~crashed =>
    \A n \in TagNames :
      LET b == BeginRecovery(Dir, n)
      IN  b.ok =>
            /\ Pos(b.r) = Position(Min(present), 0) => TagSites(n) = {}
            /\ TagSites(n) # {} => \E s \in TagSites(n) : Pos(b.r) = AfterSite(s)

\* C5. When a writer is opened again on the directory, every entry of the
\* tags file whose segment is retained is still in the tags file with the
\* same position, and SeekTag still finds the tag.
TagCacheDurable ==
  [][(~wopen /\ wopen') =>
       \A n \in DOMAIN tagsFile.doc :
         tagsFile.doc[n].segment \in present' =>
           /\ n \in DOMAIN tagsFile'.doc
           /\ tagsFile'.doc[n] = tagsFile.doc[n]
           /\ SeekTag(NewReader(Dir').r, n, Dir').err = NoError]_vars

\* C6. Every entry name -> {segment, offset} of the tags file names a
\* retained segment that holds, at that offset, a tag record with that name;
\* also in the directory a crash leaves (here for a writer that keeps at
\* least one segment).
TagCacheSound ==
  opts.MaxSegments >= 1 =>
    \A n \in DOMAIN tagsFile.doc :
      LET p == tagsFile.doc[n]
      IN  /\ p.segment \in present
          /\ wopen => p.segment >= first
          /\ LET k == EntryAt(files[p.segment], p.offset)
             IN  k # 0 /\ files[p.segment][k] = Rec(tagType, n)

\* C7. In the directory a crash leaves, a tags file that does not name the
\* tag never makes SeekTag miss it: if the linear scan finds the tag,
\* SeekTag finds it.
CacheRewriteCrashSafe ==
  (crashed /\ ~wopen) =>
    \A n \in TagNames :
      LET nr == NewReader(Dir)
      IN  (/\ nr.err = NoError
           /\ ~(tagsFile.st = "doc" /\ n \in DOMAIN tagsFile.doc)
           /\ ScanTag(nr.r, n, Dir).err = NoError)
            => SeekTag(nr.r, n, Dir).err = NoError

\* C8. When the tags file names the tag but the record read at that position
\* is missing or differs, SeekTag goes on with the linear scan: if the scan
\* finds the tag, SeekTag succeeds.
SeekTagFallsBack ==
  \A n \in TagNames :
    LET nr == NewReader(Dir)
        sk == Seek(nr.r, tagsFile.doc[n], Dir)
        nx == next(sk.r, tagType, Dir)
    IN  (/\ nr.err = NoError
         /\ tagsFile.st = "doc" /\ n \in DOMAIN tagsFile.doc
         /\ sk.err = NoError
         /\ ~(nx.ok /\ Value(nx.r) = n)
         /\ ScanTag(nr.r, n, Dir).err = NoError)
          => SeekTag(nr.r, n, Dir).err = NoError

\* C9. When the tags file is missing or has no entry for the tag, SeekTag
\* finds a tag record of that name in whichever segment at or after the
\* reader's cursor it lies, whatever the segments between hold.
ScanFindsLaterTag ==
  \A n \in TagNames :
    LET nr == NewReader(Dir)
    IN  (/\ nr.err = NoError
         /\ tagsFile.st = "absent"
              \/ (tagsFile.st = "doc" /\ n \notin DOMAIN tagsFile.doc)
         /\ TagSites(n) # {})
          => SeekTag(nr.r, n, Dir).err = NoError

\* C10. With MaxSegments = N >= 1 and no TTL, after a write that rotates:
\* first is the larger of the previous first and index - N + 1, the segment
\* files are exactly those from first to index, and there are at most N.
PruneByCount ==
  [][(/\ wopen /\ wopen'
      /\ index' = index + 1
      /\ opts.MaxSegments >= 1
      /\ opts.SegmentTTL = 0)
       => /\ first' = Max({first, index' - opts.MaxSegments + 1})
          /\ \A i \in Indexes : i \in present' <=> (first' <= i /\ i <= index')
          /\ Cardinality(present') <= opts.MaxSegments]_vars

\* C10 witness: two segments kept of three, the oldest removed by a write.
PruneByCountWitness ==
  /\ wopen
  /\ opts.MaxSegments = 2
  /\ opts.SegmentTTL = 0
  /\ everPruned /\ ~crashed
  /\ first = 1
  /\ index = 2
  /\ present = {1, 2}

\* C11, as the spec states it. A Write that prunes with a TTL removes no
\* segment whose modification time is after the expiration, however many
\* segments there are (here for a writer that keeps at least one segment).
TTLNeverDeletesFresh ==
  [][\A data \in Payloads, fresh \in FreshChoices(opts) :
       (opts.SegmentTTL # 0 /\ opts.MaxSegments >= 1 /\ Write(data, fresh))
         => (present \ present') \cap fresh = {}]_vars

\* C11, amended. A Write that prunes with a TTL removes a segment modified
\* after the expiration only below the count boundary index - MaxSegments + 1;
\* from the boundary on, fresh segments are kept.
TTLKeepsFreshWithinCount ==
  [][\A data \in Payloads, fresh \in FreshChoices(opts) :
       (opts.SegmentTTL # 0 /\ Write(data, fresh))
         => \A i \in (present \ present') \cap fresh :
              i < index' - opts.MaxSegments + 1]_vars

\* C11 witness: the TTL removed segment 0, which the count would have kept,
\* and the pruning stopped at a fresh segment below the current one.
TTLKeepsFreshWitness ==
  /\ wopen /\ ~crashed
  /\ opts.SegmentTTL # 0
  /\ opts.MaxSegments = 3
  /\ first = 1
  /\ index = 2
  /\ present = {1, 2}

\* C12. While a writer is open: first <= index, no segment file below first
\* exists, and the file of the current segment exists.
LogInvariant ==
  wopen => /\ first <= index
           /\ \A i \in present : i >= first
           /\ index \in present

\* C13. Write(p) rotates exactly when the current segment's size + Len(p) + 7
\* exceeds SegmentSize. When it rotates, the old segment is closed, index
\* grows by one, the pruning has run and p is the first record of the new
\* segment; when it does not, index, first and the set of files are as
\* before and p is appended to the current segment.
RotationRule ==
  [][\A data \in Payloads, fresh \in FreshChoices(opts) :
       Write(data, fresh) =>
         LET rot == segPos + Len(data) + 7 > opts.SegmentSize
             rec == Rec(dataType, data)
         IN  /\ rot <=> index' # index
             /\ rot => /\ index' = index + 1
                       /\ segPos' = EntrySize(rec)
                       /\ index' \in present' => files'[index'] = <<rec>>
                       /\ index \in present' =>
                            files'[index] = Append(files[index], closingMagic)
                       /\ \A i \in present' : i >= first'
             /\ ~rot => /\ index' = index
                        /\ first' = first
                        /\ present' = present
                        /\ segPos' = segPos + EntrySize(rec)
                        /\ index \in present =>
                             files'[index] = Append(files[index], rec)]_vars

\* C13 witness: a segment begun by a rotating write and appended to by a
\* write that did not rotate, the segment before it closed.
RotationRuleWitness ==
  /\ wopen /\ ~crashed
  /\ index >= 1
  /\ {index - 1, index} \subseteq present
  /\ Len(files[index]) >= 2
  /\ files[index][1].typ = dataType
  /\ files[index][2].typ = dataType
  /\ files[index - 1] # <<>>
  /\ files[index - 1][Len(files[index - 1])] = closingMagic

\* Thread t is inside a call: it holds the lock.
InCall(t) == thr.pc[t] \notin {"idle", "lock"}

\* C14. Whatever the interleaving of the threads' calls of Write, WriteTag
\* and Pos: at most one thread is inside a call, so no step of another call
\* falls between a rotation and its append; whenever no thread is inside a
\* call the writer and the directory are those of the calls run whole, one
\* after the other in the order in which they took the lock; and every Pos
\* returns the position of that sequential run.
WriterSerialized ==
  /\ \A t \in Threads, u \in Threads : (InCall(t) /\ InCall(u)) => t = u
  /\ \A t \in Threads : InCall(t) => thr.lock = t
  /\ (\A t \in Threads : ~InCall(t)) => Cur = thr.ref
  /\ \A t \in Threads :
       (thr.pc[t] \in {"unlock", "idle"} /\ thr.call[t].op = "pos")
         => thr.call[t].ret = thr.call[t].want

\* C14 witness: a thread has rotated and not yet appended while another
\* thread's call waits for the lock.
WriterSerializedWitness ==
  \E t \in Threads, u \in Threads :
    /\ thr.pc[t] = "append"
    /\ index >= 1
    /\ segPos = 0
    /\ thr.pc[u] = "lock"
    /\ thr.call[u].op \in {"pos", "write"}

\* No data record lies at or after the cursor of reader R: none from its
\* offset on in its segment, none in a segment of higher index.
NoDataAhead(R, D) ==
  /\ \A k \in 1 .. Len(D.files[R.index]) :
       D.files[R.index][k].typ = dataType
         => OffsetOf(D.files[R.index], k) < R.off
  /\ \A i \in D.present :
       i > R.index => \A k \in 1 .. Len(D.files[i]) :
                        D.files[i][k].typ # dataType

\* Each of the next n + 1 calls of Next by reader R that returns false with
\* no error leaves no data record ahead.
RECURSIVE FalseMeansCaughtUp(_, _, _)
FalseMeansCaughtUp(R, D, n) ==
  LET nx == ReaderNext(R, D)
  IN  /\ (~nx.ok /\ Error(nx.r) = NoError) => NoDataAhead(nx.r, D)
      /\ n > 0 => FalseMeansCaughtUp(nx.r, D, n - 1)

\* C15. Whenever Next returns false and Error is nil, no data record is at
\* or after the reader's cursor, in its segment or in any later segment on
\* disk: a segment without data records in between is stepped over within
\* the call.
NextFalseOnlyWhenCaughtUp ==
  LET nr == NewReader(Dir)
  IN  nr.err = NoError => FalseMeansCaughtUp(nr.r, Dir, MaxOps + 1)

\* a is the beginning of b.
IsPrefix(a, b) == Len(a) <= Len(b) /\ a = SubSeq(b, 1, Len(a))

\* C16. A reader that follows the live writer yields the data records in
\* write order, each once, none left out: as long as no segment was pruned,
\* what it has yielded so far is the beginning of what was written. (The
\* reader only moves forward, so a record it has passed is never yielded.)
TailYieldsInOrder ==
  (tail.st # "none" /\ ~everPruned) => IsPrefix(tail.got, Written)

\* The place <<segment, entry>> of the last data record of the log.
LastDataSite ==
  LET segs == {i \in present : \E k \in 1 .. Len(files[i]) :
                                 files[i][k].typ = dataType}
      i    == Max(segs)
  IN  <<i, Max({k \in 1 .. Len(files[i]) : files[i][k].typ = dataType})>>

\* C17. If the log holds a data record, a fresh reader's SeekLast succeeds
\* and the following Next yields the last data record of the log; SeekLast
\* fails with ErrNoSegments only if the log holds no data record.
SeekLastFindsLast ==
  LET nr   == NewReader(Dir)
      sl   == SeekLast(nr.r, Dir)
      nx   == ReaderNext(sl.r, Dir)
      some == \E i \in present : \E k \in 1 .. Len(files[i]) :
                files[i][k].typ = dataType
  IN  nr.err = NoError =>
        /\ some => /\ sl.err = NoError
                   /\ nx.ok
                   /\ Value(nx.r) = files[LastDataSite[1]][LastDataSite[2]].val
                   /\ Pos(nx.r) = AfterSite(LastDataSite)
        /\ sl.err = ErrNoSegments => ~some

\* C18. A writer opened again resumes with index the highest segment index
\* on disk and first the lowest (0 if there is none); the writer's index is
\* never below an index a writer used before; and a segment file is only
\* ever created with an index above every index used before.
IndicesOnlyIncrease ==
  [][/\ (~wopen /\ wopen') =>
          /\ index' = (IF present = {} THEN 0 ELSE Max(present))
          /\ first' = (IF present = {} THEN 0 ELSE Min(present))
     /\ wopen' => index' >= maxUsed
     /\ \A i \in present' \ present : i > maxUsed]_vars

\* C19. After every WriteTag(name) the tags file's entry for name is the
\* writer's position right before the call, and after every WriteTag and
\* every Write, pruning or not, the entries of the tags file are those of
\* the writer's tag map.
CacheConsistent ==
  [][/\ \A tag \in TagNames :
          WriteTag(tag) => /\ tagsFile'.st = "doc"
                           /\ tag \in DOMAIN tagsFile'.doc
                           /\ tagsFile'.doc[tag] = Position(index, segPos)
                           /\ tagsFile'.doc = cache'
     /\ \A data \in Payloads, fresh \in FreshChoices(opts) :
          Write(data, fresh) => tagsFile'.doc = cache']_vars

\* C19 witness: a tag written twice, the tags file naming the second record.
CacheConsistentWitness ==
  /\ wopen /\ ~crashed
  /\ tagsFile.st = "doc"
  /\ tagsFile.doc = cache
  /\ \E n \in DOMAIN tagsFile.doc :
       /\ Cardinality(TagSites(n)) = 2
       /\ \E s \in TagSites(n) :
            /\ tagsFile.doc[n] = Position(s[1], OffsetOf(files[s[1]], s[2]))
            /\ \A t \in TagSites(n) : t[2] <= s[2]

\* The positions a caller may seek to: any offset of a segment on disk.
SeekTargets ==
  UNION {{Position(i, off) : off \in 0 .. FileSize(files[i])} : i \in present}

\* Pos returns the sentinel when Error is not nil or no segment is open,
\* and the open segment's index and offset otherwise.
PosAnswers(R) ==
  IF Error(R) # NoError \/ ~R.open
  THEN Pos(R) = NoPosition
  ELSE Pos(R) = Position(R.index, R.off)

\* C20. For a fresh reader, and for a reader after Seek to any position and
\* a call of Next: Pos is {-1, -1} whenever Error is not nil or no segment
\* is open, and {index, offset} of the open segment otherwise.
PositionSentinel ==
  LET nr == NewReader(Dir)
  IN  /\ PosAnswers(ZeroReader)
      /\ nr.err = NoError =>
           /\ PosAnswers(nr.r)
           /\ \A p \in SeekTargets :
                LET sk == Seek(nr.r, p, Dir)
                IN  PosAnswers(sk.r) /\ PosAnswers(ReaderNext(sk.r, Dir).r)

\* The bytes of records in the entries s: the closing markers left out.
RecordBytes(s) ==
  FileSize(SelectSeq(s, LAMBDA e : e.typ # "m"))

\* Every framed record a call can write fits within SegmentSize.
EveryRecordFits ==
  \A v \in Payloads \cup TagNames : Len(v) + averageOverhead <= opts.SegmentSize

\* C21. When every single framed record fits within SegmentSize, no segment
\* holds more than SegmentSize bytes of records, whatever Write and WriteTag
\* calls were made.
SegmentSizeIsMaximum ==
  (EveryRecordFits /\ ~crashed /\ opts.MaxSegments >= 1) =>
    \A i \in present : RecordBytes(files[i]) <= opts.SegmentSize

\* The place <<segment, entry>> of the tag record named n written last.
LastTagSite(n) ==
  CHOOSE s \in TagSites(n) :
    \A t \in TagSites(n) : t[1] < s[1] \/ (t[1] = s[1] /\ t[2] <= s[2])

\* The directory without its tags file.
WithoutTagsFile(D) ==
  [D EXCEPT !.tagsFile = [st |-> "absent", doc |-> EmptyTags]]

\* C22. For a tag the tags file names, a fresh reader's SeekTag ends at the
\* same position with the tags file and without it: right after the tag
\* record of that name written last, also when the name was written more
\* than once.
CachePathEqualsScanPath ==
  (~crashed /\ opts.MaxSegments >= 1) =>
    \A n \in TagNames :
      LET nr     == NewReader(Dir)
          cached == SeekTag(nr.r, n, Dir)
          scan   == SeekTag(nr.r, n, WithoutTagsFile(Dir))
      IN  (/\ nr.err = NoError
           /\ tagsFile.st = "doc" /\ n \in DOMAIN tagsFile.doc
           /\ TagSites(n) # {})
            => /\ cached.err = NoError
               /\ scan.err = NoError
               /\ Pos(cached.r) = Pos(scan.r)
               /\ Pos(cached.r) = AfterSite(LastTagSite(n))

\* C23. The index of the reader that follows the writer names the segment
\* file its segment reader has open, also after a call of Next that failed
\* because a segment file was pruned before the reader opened it.
ReaderCursorConsistent ==
  tail.r.open => tail.r.seg = tail.r.index

====
